---- MODULE Spec2Model ----
(***************************************************************************)
(* Model of github.com/amenzhinsky/rfkill (rfkill.go): one Watcher over    *)
(* the control device, its decode loop goroutine (Watcher.watch), the      *)
(* unsynchronised Watcher.close shared by the loop and by the consumer's   *)
(* Close(), and the two kinds of consumer: a direct user of                *)
(* Watch/C/Err/Close and the Each helper.                                  *)
(*                                                                         *)
(* Every step is one shared-memory, channel or file operation of the       *)
(* source, so that every interleaving of the two goroutines is explored.   *)
(***************************************************************************)
EXTENDS Integers, Sequences, FiniteSets, TLC

\* ---------------------------------------------------------------- bounds
MaxRecords == 3   \* records buffered in the device
MaxCloses == 2    \* Close() calls a direct consumer makes

\* ------------------------------------------------------------- constants
OpAdd == 0
OpDel == 1
OpChange == 2
OpChangeAll == 3

Proc == {"loop", "caller"}

\* operations the modelled device emits
RecOps == {OpAdd, OpChange}

\* what the handler given to Each may return
HandlerResults == {"nil", "ErrHandlerA", "ErrHandlerB"}

\* device indexes given to BlockByIdx (uint32), chosen to exercise every byte;
\* the largest is the largest integer the model checker represents
BlockIdxs == {0, 1, 3, 255, 256, 65536, 16777217, 2147483647}

\* filter sets a direct consumer passes to Watch
FilterSets == {{}, {OpAdd}, {OpDel, OpChange}}

RECURSIVE SeqsUpTo(_, _)
SeqsUpTo(S, n) ==
    IF n = 0 THEN {<<>>}
    ELSE LET shorter == SeqsUpTo(S, n - 1)
         IN  shorter \cup {Append(s, x) : s \in shorter, x \in S}

\* the i-th record of the device: Idx = i makes every record attributable
Event(i, op) == [Idx |-> i, Op |-> op]

Devices ==
    {[i \in 1..Len(s) |-> Event(i, s[i])] : s \in SeqsUpTo(RecOps, MaxRecords)}

VARIABLES
    mode,        \* "watch": the caller uses Watch/C/Err/Close; "each": the caller runs
                 \* Each; "block": the caller runs BlockByIdx
    ops,         \* the filter set given to Watch
    exists,      \* whether the control device path exists
    dev,         \* the records the device holds, in emission order
    pollable,    \* the handle supports deadlines (character device), or not (regular file)
    endKind,     \* what a read past the last record does: "block", "EOF", "ErrUnexpectedEOF"
    pos,         \* number of records read from the handle
    fileOpen,    \* w.file is open
    deadline,    \* an expired read deadline is set on w.file
    nFileClose,  \* executions of w.file.Close() (rfkill.go:299)
    err,         \* w.err
    done,        \* w.done is closed
    nDoneClose,  \* executions of close(w.done) (rfkill.go:298)
    evchClosed,  \* w.evch is closed
    pc,          \* position of each goroutine
    closeArg,    \* the err argument of each goroutine's call of close
    wrote,       \* goroutines that executed w.err = err (rfkill.go:296)
    ev,          \* the loop's decoded event (var ev)
    delivered,   \* events received from w.C()
    ended,       \* the consumer saw w.C() closed
    errSeen,     \* what Err() returned after the stream ended
    errAtClose,  \* w.err when the caller last called Close()
    closeRet,    \* return values of the caller's completed Close() calls
    nClose,      \* Close() calls of the caller
    handled,     \* events the handler of Each was invoked with
    eachRet,     \* return value of Each
    fnErr,       \* the handler's first non-nil error and the invocation that returned it
    crashed,     \* the process died of a panic
    watchRet,    \* the error Watch returned to a direct consumer
    lenAtDone,   \* events delivered when w.done was closed (-1 before)
    lenAtClose,  \* events delivered when the caller's first Close() returned (-1 before)
    failAfterClose, \* whether a Close() had been called when the loop's read failed
    bb           \* a call of BlockByIdx: its arguments, its handle, what it wrote

cfgVars == <<mode, ops, exists, dev, pollable, endKind>>
fileVars == <<pos, fileOpen, deadline, nFileClose>>
chanVars == <<done, nDoneClose, evchClosed, lenAtDone>>
callerVars == <<delivered, ended, errSeen, errAtClose, nClose, handled, eachRet,
               fnErr>>
vars == <<cfgVars, fileVars, chanVars, err, pc, closeArg, wrote, ev, callerVars,
          closeRet, crashed, watchRet, lenAtClose, failAfterClose, bb>>

NoEvent == [Idx |-> 0, Op |-> OpAdd]

\* The state after the caller has chosen what to run and before Watch opens
\* the device.  A handle whose read blocks at the end of the data is the
\* character device, which the runtime polls and so supports deadlines; a
\* regular file (rfkill_test.go) supports none and ends in EOF or a short read.
Init ==
    /\ mode \in {"watch", "each", "block"}
    /\ ops \in (IF mode = "each" THEN {{OpAdd}}
                ELSE IF mode = "block" THEN {{}} ELSE FilterSets)
    /\ exists \in BOOLEAN
    /\ dev \in (IF mode = "block" THEN {<<>>} ELSE Devices)
    /\ pollable \in (IF mode = "block" THEN {TRUE} ELSE BOOLEAN)
    /\ endKind \in (IF mode = "block" THEN {"block"}
                    ELSE IF pollable THEN {"block", "EOF", "ErrUnexpectedEOF"}
                    ELSE {"EOF", "ErrUnexpectedEOF"})
    /\ pos = 0
    /\ fileOpen = FALSE
    /\ deadline = FALSE
    /\ nFileClose = 0
    /\ err = "nil"
    /\ done = FALSE
    /\ nDoneClose = 0
    /\ evchClosed = FALSE
    /\ pc = [p \in Proc |-> IF p = "caller" THEN "start" ELSE "unborn"]
    /\ closeArg = [p \in Proc |-> "nil"]
    /\ wrote = [p \in Proc |-> FALSE]
    /\ ev = NoEvent
    /\ delivered = <<>>
    /\ ended = FALSE
    /\ errSeen = "none"
    /\ errAtClose = "none"
    /\ closeRet = <<>>
    /\ nClose = 0
    /\ handled = <<>>
    /\ eachRet = "none"
    /\ fnErr = [at |-> 0, e |-> "nil"]
    /\ crashed = FALSE
    /\ watchRet = "none"
    /\ lenAtDone = -1
    /\ lenAtClose = -1
    /\ failAfterClose = "none"
    /\ bb \in (IF mode # "block" THEN {"none"}
               ELSE [pc : {"start"}, idx : BlockIdxs, block : BOOLEAN,
                     endianness : {"LittleEndian", "BigEndian"},
                     open : {FALSE}, nOpen : {0}, nClose : {0},
                     written : {<<>>}, ret : {"none"}])

\* ------------------------------------------------------------------ open
\* an open that does not notice a missing control device
open_ignoreMissing == "nil"

\* rfkill.go:305-314: the error open returns, DeviceMissing when the control
\* device does not exist
open == IF exists THEN "nil" ELSE "DeviceMissing"

\* Watch (and the first lines of Each): open the device, start the loop
Watch ==
    /\ ~crashed
    /\ mode \in {"watch", "each"}
    /\ pc["caller"] = "start"
    /\ IF open # "nil"
       THEN /\ pc' = [pc EXCEPT !["caller"] =
                         IF mode = "each" THEN "each_returned" ELSE "failed"]
            /\ eachRet' = IF mode = "each" THEN open ELSE eachRet
            /\ watchRet' = IF mode = "each" THEN watchRet ELSE open
            /\ UNCHANGED fileOpen
       ELSE /\ pc' = [pc EXCEPT !["caller"] =
                         IF mode = "each" THEN "each_select" ELSE "idle",
                                !["loop"] = "read"]
            /\ fileOpen' = TRUE
            /\ watchRet' = IF mode = "each" THEN watchRet ELSE "nil"
            /\ UNCHANGED eachRet
    /\ UNCHANGED <<cfgVars, bb, failAfterClose, pos, deadline, nFileClose,
                   chanVars, err, closeArg, wrote, ev, delivered, ended,
                   errSeen, errAtClose, nClose, handled, closeRet, lenAtClose,
                   crashed, fnErr>>

\* ----------------------------------------------------------------- close
\* the return of close(err) to its caller: the loop discards the value and
\* returns (rfkill.go:248-249); Close() hands it to the consumer, and in Each
\* the deferred Close() is the last thing before Each returns (rfkill.go:178)
closeReturn(p, r) ==
    IF p = "loop"
    THEN /\ pc' = [pc EXCEPT ![p] = "return"]
         /\ UNCHANGED <<closeRet, lenAtClose>>
    ELSE /\ pc' = [pc EXCEPT ![p] = IF mode = "each" THEN "each_returned" ELSE "idle"]
         /\ closeRet' = Append(closeRet, r)
         /\ lenAtClose' = IF lenAtClose = -1 THEN Len(delivered) ELSE lenAtClose

\* a close that lacks the check of w.done
closeCheck_noCheck(p, e) ==
    /\ pc' = [pc EXCEPT ![p] = "close_err"]
    /\ closeArg' = [closeArg EXCEPT ![p] = e]
    /\ UNCHANGED <<closeRet, lenAtClose>>

\* rfkill.go:288-292: select { case <-w.done: return nil; default: }
closeCheck(p, e) ==
    IF done
    THEN /\ closeReturn(p, "nil")
         /\ UNCHANGED closeArg
    ELSE /\ pc' = [pc EXCEPT ![p] = "close_err"]
         /\ closeArg' = [closeArg EXCEPT ![p] = e]
         /\ UNCHANGED <<closeRet, lenAtClose>>

\* the loop's call w.close(err) after a failed read (rfkill.go:248)
watchClose ==
    /\ ~crashed
    /\ pc["loop"] = "close_check"
    /\ closeCheck("loop", closeArg["loop"])
    /\ UNCHANGED <<cfgVars, bb, watchRet, failAfterClose, fileVars, chanVars,
                   err, wrote, ev, callerVars, crashed>>

\* a close that forgets to record its error
closeSetErr_skip(p) ==
    /\ ~crashed
    /\ pc[p] = "close_err"
    /\ pc' = [pc EXCEPT ![p] = "close_deadline"]
    /\ UNCHANGED <<cfgVars, bb, watchRet, failAfterClose, fileVars, chanVars,
                   err, wrote, closeArg, ev, callerVars, closeRet, lenAtClose,
                   crashed>>

\* rfkill.go:296: w.err = err.  The assignment is not synchronised; two racing
\* assignments store errors of one dynamic type, so w.err ends as one of the
\* two values, in either order.
closeSetErr(p) ==
    /\ ~crashed
    /\ pc[p] = "close_err"
    /\ err' = closeArg[p]
    /\ wrote' = [wrote EXCEPT ![p] = TRUE]
    /\ pc' = [pc EXCEPT ![p] = "close_deadline"]
    /\ UNCHANGED <<cfgVars, bb, watchRet, failAfterClose, fileVars, chanVars,
                   closeArg, ev, callerVars, closeRet, lenAtClose, crashed>>

\* rfkill.go:297: w.file.SetReadDeadline(time.Now()); its error (a closed
\* handle, a handle without deadline support) is discarded
closeSetDeadline(p) ==
    /\ ~crashed
    /\ pc[p] = "close_deadline"
    /\ deadline' = (deadline \/ (fileOpen /\ pollable))
    /\ pc' = [pc EXCEPT ![p] = "close_done"]
    /\ UNCHANGED <<cfgVars, bb, watchRet, failAfterClose, pos, fileOpen,
                   nFileClose, chanVars, err, closeArg, wrote, ev, callerVars,
                   closeRet, lenAtClose, crashed>>

\* rfkill.go:298: close(w.done); closing a closed channel panics
closeDone(p) ==
    /\ ~crashed
    /\ pc[p] = "close_done"
    /\ nDoneClose' = nDoneClose + 1
    /\ done' = TRUE
    /\ lenAtDone' = IF done THEN lenAtDone ELSE Len(delivered)
    /\ pc' = [pc EXCEPT ![p] = IF ~done THEN "close_file"
                                ELSE IF p = "loop" THEN "panic" ELSE "fatal"]
    /\ UNCHANGED <<cfgVars, bb, watchRet, failAfterClose, fileVars, evchClosed,
                   err, closeArg, wrote, ev, callerVars, closeRet, lenAtClose,
                   crashed>>

\* a close that returns without closing the handle
closeFile_leak(p) ==
    /\ ~crashed
    /\ pc[p] = "close_file"
    /\ closeReturn(p, "nil")
    /\ UNCHANGED <<cfgVars, bb, watchRet, failAfterClose, fileVars, chanVars,
                   err, closeArg, wrote, ev, callerVars, crashed>>

\* rfkill.go:299: return w.file.Close()
closeFile(p) ==
    /\ ~crashed
    /\ pc[p] = "close_file"
    /\ nFileClose' = nFileClose + 1
    /\ fileOpen' = FALSE
    /\ closeReturn(p, IF fileOpen THEN "nil" ELSE "os.ErrClosed")
    /\ UNCHANGED <<cfgVars, bb, watchRet, failAfterClose, pos, deadline,
                   chanVars, err, closeArg, wrote, ev, callerVars, crashed>>

\* ------------------------------------------------------------ decode loop
\* a read that still reaches the device through a closed handle
read_ignoreClosed ==
    IF pollable /\ deadline THEN "timeout"
    ELSE IF pos < Len(dev) THEN "ok"
    ELSE endKind

\* the outcome of binary.Read(w.file, ...) (rfkill.go:244): a closed handle
\* fails first, then an expired deadline, then data, then the end of the data
read ==
    IF ~fileOpen THEN "PathErrClosed"
    ELSE IF pollable /\ deadline THEN "timeout"
    ELSE IF pos < Len(dev) THEN "ok"
    ELSE endKind

\* a loop that returns silently on every read failure
watchRead_swallow ==
    /\ ~crashed
    /\ pc["loop"] = "read"
    /\ read # "block"
    /\ IF read = "ok"
       THEN /\ ev' = dev[pos + 1]
            /\ pos' = pos + 1
            /\ pc' = [pc EXCEPT !["loop"] = "filter"]
            /\ UNCHANGED <<closeArg, failAfterClose>>
       ELSE /\ pc' = [pc EXCEPT !["loop"] = "return"]
            /\ failAfterClose' = IF nClose > 0 THEN "yes" ELSE "no"
            /\ UNCHANGED <<ev, pos, closeArg>>
    /\ UNCHANGED <<cfgVars, bb, watchRet, fileOpen, deadline, nFileClose,
                   chanVars, err, wrote, callerVars, closeRet, lenAtClose,
                   crashed>>

\* rfkill.go:244-250
watchRead ==
    /\ ~crashed
    /\ pc["loop"] = "read"
    /\ read # "block"
    /\ IF read = "ok"
       THEN /\ ev' = dev[pos + 1]
            /\ pos' = pos + 1
            /\ pc' = [pc EXCEPT !["loop"] = "filter"]
            /\ UNCHANGED <<closeArg, failAfterClose>>
       ELSE IF read = "timeout"
       THEN /\ pc' = [pc EXCEPT !["loop"] = "return"]
            /\ failAfterClose' = IF nClose > 0 THEN "yes" ELSE "no"
            /\ UNCHANGED <<ev, pos, closeArg>>
       ELSE /\ pc' = [pc EXCEPT !["loop"] = "close_check"]
            /\ closeArg' = [closeArg EXCEPT !["loop"] = read]
            /\ failAfterClose' = IF nClose > 0 THEN "yes" ELSE "no"
            /\ UNCHANGED <<ev, pos>>
    /\ UNCHANGED <<cfgVars, bb, watchRet, fileOpen, deadline, nFileClose,
                   chanVars, err, wrote, callerVars, closeRet, lenAtClose,
                   crashed>>

\* a filter that lacks the len(ops) != 0 test
found_noEmptyCase(f, e) == \E op \in f : op = e.Op

\* a filter that lets every operation through
found_any(f, e) == TRUE

\* rfkill.go:251-262: whether the loop publishes event e under filter set f
found(f, e) == f = {} \/ \E op \in f : op = e.Op

\* a loop that goes on reading without waiting for the consumer
watchFilter_noWait ==
    /\ ~crashed
    /\ pc["loop"] = "filter"
    /\ pc' = [pc EXCEPT !["loop"] = "read"]
    /\ UNCHANGED <<cfgVars, bb, watchRet, failAfterClose, fileVars, chanVars,
                   err, closeArg, wrote, ev, callerVars, closeRet, lenAtClose,
                   crashed>>

\* rfkill.go:251-262: the loop drops the event or goes on to the handoff
watchFilter ==
    /\ ~crashed
    /\ pc["loop"] = "filter"
    /\ pc' = [pc EXCEPT !["loop"] = IF found(ops, ev) THEN "select" ELSE "read"]
    /\ UNCHANGED <<cfgVars, bb, watchRet, failAfterClose, fileVars, chanVars,
                   err, closeArg, wrote, ev, callerVars, closeRet, lenAtClose,
                   crashed>>

\* rfkill.go:264: case w.evch <- ev, taken together with a receive on w.C()
\* by the consumer (rfkill.go:182 in Each)
watchSend ==
    /\ ~crashed
    /\ pc["loop"] = "select"
    /\ pc["caller"] \in {"idle", "each_select"}
    /\ delivered' = Append(delivered, ev)
    /\ pc' = [pc EXCEPT !["loop"] = "read",
                        !["caller"] = IF mode = "each" THEN "each_fn" ELSE "idle"]
    /\ UNCHANGED <<cfgVars, bb, watchRet, failAfterClose, fileVars, chanVars,
                   err, closeArg, wrote, ev, ended, errSeen, errAtClose,
                   nClose, handled, eachRet, closeRet, lenAtClose, crashed,
                   fnErr>>

\* a handoff that does not listen to w.done
watchDone_missing ==
    /\ FALSE
    /\ UNCHANGED vars

\* rfkill.go:265-266: case <-w.done: return
watchDone ==
    /\ ~crashed
    /\ pc["loop"] = "select"
    /\ done
    /\ pc' = [pc EXCEPT !["loop"] = "return"]
    /\ UNCHANGED <<cfgVars, bb, watchRet, failAfterClose, fileVars, chanVars,
                   err, closeArg, wrote, ev, callerVars, closeRet, lenAtClose,
                   crashed>>

\* rfkill.go:240: defer close(w.evch), on a return and on a panic of the loop
watchReturn ==
    /\ ~crashed
    /\ pc["loop"] \in {"return", "panic"}
    /\ evchClosed' = TRUE
    /\ pc' = [pc EXCEPT !["loop"] = IF pc["loop"] = "panic" THEN "fatal" ELSE "stopped"]
    /\ UNCHANGED <<cfgVars, bb, watchRet, failAfterClose, fileVars, done,
                   nDoneClose, lenAtDone, err, closeArg, wrote, ev, callerVars,
                   closeRet, lenAtClose, crashed>>

\* an unrecovered panic ends the process
Crash ==
    /\ ~crashed
    /\ \E p \in Proc : pc[p] = "fatal"
    /\ crashed' = TRUE
    /\ UNCHANGED <<cfgVars, bb, watchRet, failAfterClose, fileVars, chanVars,
                   err, pc, closeArg, wrote, ev, callerVars, closeRet,
                   lenAtClose>>

\* --------------------------------------------------------------- consumer
\* a receive on w.C() that finds the channel closed
RecvClosed ==
    /\ ~crashed
    /\ pc["caller"] = "idle"
    /\ evchClosed
    /\ ~ended
    /\ ended' = TRUE
    /\ UNCHANGED <<cfgVars, bb, watchRet, failAfterClose, fileVars, chanVars,
                   err, pc, closeArg, wrote, ev, delivered, errSeen,
                   errAtClose, nClose, handled, eachRet, closeRet, lenAtClose,
                   crashed, fnErr>>

\* rfkill.go:278-280, called once the stream has ended
Err ==
    /\ ~crashed
    /\ pc["caller"] = "idle"
    /\ ended
    /\ errSeen' = err
    /\ UNCHANGED <<cfgVars, bb, watchRet, failAfterClose, fileVars, chanVars,
                   err, pc, closeArg, wrote, ev, delivered, ended, errAtClose,
                   nClose, handled, eachRet, closeRet, lenAtClose, crashed,
                   fnErr>>

\* rfkill.go:283-285: Close() is close(ErrClosed)
Close ==
    /\ ~crashed
    /\ pc["caller"] = "idle"
    /\ nClose < MaxCloses
    /\ nClose' = nClose + 1
    /\ errAtClose' = err
    /\ closeCheck("caller", "ErrClosed")
    /\ UNCHANGED <<cfgVars, bb, watchRet, failAfterClose, fileVars, chanVars,
                   err, wrote, ev, delivered, ended, errSeen, handled, eachRet,
                   crashed, fnErr>>

\* ------------------------------------------------------------------- Each
\* an Each that goes on after a handler error
EachHandler_ignoreErr ==
    /\ ~crashed
    /\ pc["caller"] = "each_fn"
    /\ handled' = Append(handled, delivered[Len(delivered)])
    /\ \E r \in HandlerResults :
          fnErr' = IF r = "nil" \/ fnErr.at # 0 THEN fnErr
                   ELSE [at |-> Len(handled) + 1, e |-> r]
    /\ pc' = [pc EXCEPT !["caller"] = "each_select"]
    /\ UNCHANGED <<cfgVars, bb, watchRet, failAfterClose, fileVars, chanVars,
                   err, wrote, ev, delivered, ended, errSeen, eachRet,
                   closeArg, closeRet, lenAtClose, nClose, errAtClose,
                   crashed>>

\* rfkill.go:186-188: the handler runs; a non-nil error is returned at once,
\* and the deferred Close() starts
EachHandler ==
    /\ ~crashed
    /\ pc["caller"] = "each_fn"
    /\ handled' = Append(handled, delivered[Len(delivered)])
    /\ \E r \in HandlerResults :
          IF r = "nil"
          THEN /\ pc' = [pc EXCEPT !["caller"] = "each_select"]
               /\ UNCHANGED <<eachRet, closeArg, closeRet, lenAtClose, nClose,
                              errAtClose, fnErr>>
          ELSE /\ eachRet' = r
               /\ fnErr' = [at |-> Len(handled) + 1, e |-> r]
               /\ nClose' = nClose + 1
               /\ errAtClose' = err
               /\ closeCheck("caller", "ErrClosed")
    /\ UNCHANGED <<cfgVars, bb, watchRet, failAfterClose, fileVars, chanVars,
                   err, wrote, ev, delivered, ended, errSeen, crashed>>

\* rfkill.go:182-185: the stream has ended, Each returns w.Err()
EachClosed ==
    /\ ~crashed
    /\ pc["caller"] = "each_select"
    /\ evchClosed
    /\ ended' = TRUE
    /\ errSeen' = err
    /\ eachRet' = err
    /\ nClose' = nClose + 1
    /\ errAtClose' = err
    /\ closeCheck("caller", "ErrClosed")
    /\ UNCHANGED <<cfgVars, bb, watchRet, failAfterClose, fileVars, chanVars,
                   err, wrote, ev, delivered, handled, crashed, fnErr>>

\* an idle window that ends Each with an error
EachTimeout_err ==
    /\ ~crashed
    /\ pc["caller"] = "each_select"
    /\ eachRet' = "ErrTimeout"
    /\ nClose' = nClose + 1
    /\ errAtClose' = err
    /\ closeCheck("caller", "ErrClosed")
    /\ UNCHANGED <<cfgVars, bb, watchRet, failAfterClose, fileVars, chanVars,
                   err, wrote, ev, delivered, ended, errSeen, handled, crashed,
                   fnErr>>

\* rfkill.go:190-191: no event within the idle window, Each returns nil
EachTimeout ==
    /\ ~crashed
    /\ pc["caller"] = "each_select"
    /\ eachRet' = "nil"
    /\ nClose' = nClose + 1
    /\ errAtClose' = err
    /\ closeCheck("caller", "ErrClosed")
    /\ UNCHANGED <<cfgVars, bb, watchRet, failAfterClose, fileVars, chanVars,
                   err, wrote, ev, delivered, ended, errSeen, handled, crashed,
                   fnErr>>

\* ------------------------------------------------------------- BlockByIdx
\* the bytes of a uint32 in the given byte order
PutUint32(order, n) ==
    LET b(k) == (n \div (256 ^ k)) % 256
    IN  IF order = "LittleEndian" THEN <<b(0), b(1), b(2), b(3)>>
                                  ELSE <<b(3), b(2), b(1), b(0)>>

Uint32(order, b) ==
    IF order = "LittleEndian"
    THEN b[1] + 256 * b[2] + 65536 * b[3] + 16777216 * b[4]
    ELSE b[4] + 256 * b[3] + 65536 * b[2] + 16777216 * b[1]

\* binary.Write of an Event (rfkill.go:118-133, 156): Idx, Type, Op, Soft, Hard
\* in declaration order, 8 bytes, enumerations and flags written verbatim
encode(order, e) ==
    PutUint32(order, e.Idx) \o <<e.Type % 256, e.Op % 256, e.Soft % 256, e.Hard % 256>>

\* binary.Read of an Event from 8 bytes (rfkill.go:244, rfkill_test.go:49)
decode(order, b) ==
    [Idx |-> Uint32(order, SubSeq(b, 1, 4)),
     Type |-> b[5], Op |-> b[6], Soft |-> b[7], Hard |-> b[8]]

\* a command that never sets the soft state
Command_noSoft(idx, block) ==
    [Idx |-> idx, Type |-> 0, Op |-> OpChange, Soft |-> 0, Hard |-> 0]

\* rfkill.go:152-160: the Event BlockByIdx writes; Type and Hard are left zero
Command(idx, block) ==
    [Idx |-> idx, Type |-> 0, Op |-> OpChange,
     Soft |-> IF block THEN 1 ELSE 0, Hard |-> 0]

\* rfkill.go:146-149: open(os.O_WRONLY)
BlockByIdxOpen ==
    /\ mode = "block"
    /\ bb.pc = "start"
    /\ bb' = IF open # "nil"
             THEN [bb EXCEPT !.pc = "returned", !.ret = open]
             ELSE [bb EXCEPT !.pc = "write", !.open = TRUE, !.nOpen = @ + 1]
    /\ UNCHANGED <<cfgVars, fileVars, chanVars, err, pc, closeArg, wrote, ev,
                   callerVars, closeRet, crashed, watchRet, lenAtClose,
                   failAfterClose>>

\* rfkill.go:156-160: binary.Write makes one Write call with the 8 bytes; a
\* failed write may have stored any shorter prefix of them
BlockByIdxWrite ==
    /\ mode = "block"
    /\ bb.pc = "write"
    /\ LET bytes == encode(bb.endianness, Command(bb.idx, bb.block))
       IN  \/ bb' = [bb EXCEPT !.pc = "close", !.ret = "nil",
                               !.written = Append(@, bytes)]
           \/ \E k \in 0..(Len(bytes) - 1) :
                 bb' = [bb EXCEPT !.pc = "close", !.ret = "ErrWrite",
                                  !.written = IF k = 0 THEN @
                                              ELSE Append(@, SubSeq(bytes, 1, k))]
    /\ UNCHANGED <<cfgVars, fileVars, chanVars, err, pc, closeArg, wrote, ev,
                   callerVars, closeRet, crashed, watchRet, lenAtClose,
                   failAfterClose>>

\* rfkill.go:150: defer f.Close(), then BlockByIdx returns
BlockByIdxClose ==
    /\ mode = "block"
    /\ bb.pc = "close"
    /\ bb' = [bb EXCEPT !.pc = "returned", !.open = FALSE, !.nClose = @ + 1]
    /\ UNCHANGED <<cfgVars, fileVars, chanVars, err, pc, closeArg, wrote, ev,
                   callerVars, closeRet, crashed, watchRet, lenAtClose,
                   failAfterClose>>

BlockByIdx == BlockByIdxOpen \/ BlockByIdxWrite \/ BlockByIdxClose

\* ------------------------------------------------------------------- spec
watch ==
    \/ watchRead
    \/ watchFilter
    \/ watchDone
    \/ watchClose
    \/ watchReturn
    \/ \E p \in {"loop"} : closeSetErr(p) \/ closeSetDeadline(p)
                             \/ closeDone(p) \/ closeFile(p)

Next ==
    \/ Watch
    \/ watch
    \/ watchSend
    \/ \E p \in {"caller"} : closeSetErr(p) \/ closeSetDeadline(p)
                               \/ closeDone(p) \/ closeFile(p)
    \/ RecvClosed
    \/ Err
    \/ Close
    \/ EachHandler
    \/ EachClosed
    \/ EachTimeout
    \/ Crash
    \/ BlockByIdx

Spec == Init /\ [][Next]_vars

\* the scheduler runs the loop goroutine, a panicking process dies, and the
\* consumer keeps receiving
FairSpec == Spec /\ WF_vars(watch) /\ WF_vars(watchSend) /\ WF_vars(Crash)

\* only the scheduler's fairness to the loop goroutine: the consumer may stop
\* receiving at any time
LoopFairSpec == Spec /\ WF_vars(watch)

\* rfkill.go:173-194: the steps of the goroutine that runs Each, its deferred
\* w.Close() included
Each ==
    /\ mode = "each"
    /\ \/ Watch
       \/ EachHandler
       \/ EachClosed
       \/ EachTimeout
       \/ \E p \in {"caller"} : closeSetErr(p) \/ closeSetDeadline(p)
                                  \/ closeDone(p) \/ closeFile(p)

\* the scheduler runs both the loop goroutine and the goroutine inside Each,
\* whose select always has the idle timer to fall back on
EachFairSpec == Spec /\ WF_vars(watch) /\ WF_vars(Each)

\* ----------------------------------------------------------------- claims
IsPrefix(s, t) == Len(s) <= Len(t) /\ \A i \in 1..Len(s) : s[i] = t[i]

\* the watcher exists and its loop is neither stopped nor dead
loopAlive == pc["loop"] \notin {"unborn", "stopped", "fatal"}

\* the caller is inside a call of Close()
callerInClose ==
    pc["caller"] \in {"close_err", "close_deadline", "close_done", "close_file", "fatal"}

\* C1: when Close() runs concurrently with the decode loop, in every
\* interleaving nothing deadlocks (a live loop can always take a step once the
\* done signal is set), close(w.done) is executed at most once and
\* w.file.Close() is executed at most once.
C1_CloseIsSafeConcurrently ==
    /\ nDoneClose <= 1
    /\ nFileClose <= 1
    /\ (done /\ loopAlive /\ ~crashed) => ENABLED watch

\* C2: with an empty filter set the delivered events are at every moment a
\* prefix of the device's records, and when the consumer keeps receiving and
\* never calls Close, all of the records are eventually delivered.
C2_UnfilteredOrderedComplete ==
    /\ [](ops = {} => IsPrefix(delivered, dev))
    /\ (mode = "watch" /\ ops = {} /\ pc["caller"] = "idle")
          ~> (nClose > 0 \/ delivered = dev)

C2_Witness ==
    /\ mode = "watch" /\ ops = {} /\ nClose = 0
    /\ Len(dev) >= 2 /\ delivered = dev
    /\ \E i, j \in 1..Len(dev) : dev[i].Op # dev[j].Op

\* C3: with a non-empty filter set F every delivered event has its operation
\* in F, the delivered events are a prefix of the device's records whose
\* operation is in F, and the loop never offers a record outside F.
inFilter(e) == e.Op \in ops

C3_FilteredOrdered ==
    ops # {} =>
        /\ \A i \in 1..Len(delivered) : delivered[i].Op \in ops
        /\ IsPrefix(delivered, SelectSeq(dev, inFilter))
        /\ (pc["loop"] = "select" => ev.Op \in ops)

C3_Witness ==
    /\ ops # {} /\ mode = "watch"
    /\ Len(delivered) >= 1
    /\ delivered = SelectSeq(dev, inFilter)
    /\ Len(delivered) < pos
    /\ delivered[1].Idx > 1

\* C4: a second Close() after a first one has returned is a single step that
\* returns nil and leaves w.err, w.done and the handle as they were; the first
\* one returned nil too.
C4_SecondCloseIsNoop ==
    [][(mode = "watch" /\ pc["caller"] = "idle" /\ nClose >= 1 /\ nClose' = nClose + 1)
        => /\ \A i \in 1..Len(closeRet) : closeRet[i] = "nil"
           /\ closeRet' = Append(closeRet, "nil")
           /\ pc'["caller"] = "idle"
           /\ err' = err
           /\ done' = done /\ nDoneClose' = nDoneClose
           /\ fileOpen' = fileOpen /\ nFileClose' = nFileClose]_vars

C4_Witness == mode = "watch" /\ closeRet = <<"nil", "nil">> /\ nFileClose = 1

\* C5 as stated: after the stream was seen to end, Err() returns nil when the
\* stream ended because of Close() (the loop recorded no error of its own) and
\* otherwise the error that ended the loop.
C5_ErrNilAfterClose ==
    errSeen # "none" =>
        errSeen = (IF wrote["loop"] THEN closeArg["loop"] ELSE "nil")

\* C5 as amended: after the stream was seen to end, Err() returns ErrClosed
\* when the stream ended because of Close() (the loop recorded no error of its
\* own), and otherwise the error that ended the loop, or ErrClosed when a
\* Close() assigned w.err too.
C5_ErrAfterEnd ==
    errSeen # "none" =>
        errSeen \in (IF wrote["loop"]
                     THEN {closeArg["loop"]} \cup
                          (IF wrote["caller"] THEN {"ErrClosed"} ELSE {})
                     ELSE {"ErrClosed"})

C5_Witness ==
    /\ mode = "watch" /\ errSeen = "ErrClosed" /\ ~wrote["loop"]
    /\ pc["loop"] = "stopped" /\ Len(closeRet) >= 1

\* C6: when Close() is called while w.err is nil, Err() reports ErrClosed once
\* the stream has ended; when the loop had recorded its error before Close()
\* was called, no step of that Close() changes w.err.
C6_CloseKeepsEarlierError ==
    [][/\ (errAtClose = "nil" /\ ended /\ errSeen' # errSeen) => errSeen' = "ErrClosed"
       /\ (errAtClose \notin {"nil", "none"} /\ callerInClose
             /\ pc'["caller"] # pc["caller"]) => err' = err]_vars

\* C7: once a Close() has returned, the stream channel is eventually closed,
\* wherever the loop was, with no help from the consumer.
C7_StreamEndsAfterClose == (Len(closeRet) >= 1) ~> evchClosed

C7_Witness ==
    /\ mode = "watch" /\ Len(closeRet) >= 1 /\ evchClosed
    /\ pc["loop"] = "stopped" /\ ~wrote["loop"]
    /\ endKind = "block" /\ pos < Len(dev)

\* C8: w.file.Close() is executed at most once, and exactly once as soon as
\* the loop has stopped and the consumer is not inside a Close().
C8_HandleClosedOnce ==
    /\ nFileClose <= 1
    /\ (pc["loop"] = "stopped" /\ ~callerInClose) => (nFileClose = 1 /\ ~fileOpen)

C8_Witness ==
    /\ mode = "watch" /\ wrote["loop"] /\ pc["loop"] = "stopped"
    /\ ~wrote["caller"] /\ Len(closeRet) >= 1 /\ nFileClose = 1

\* C9: whenever Each has returned after opening a watcher, the done signal is
\* set and the handle has been closed.
C9_EachClosesWatcher ==
    (pc["caller"] = "each_returned" /\ exists) => (done /\ nFileClose = 1 /\ ~fileOpen)

\* C10: once the handler has returned a non-nil error e, it is not invoked
\* again, Each processes no further event, and Each returns e.
C10_HandlerErrorPropagates ==
    fnErr.at # 0 =>
        /\ Len(handled) = fnErr.at
        /\ pc["caller"] \notin {"each_select", "each_fn"}
        /\ eachRet = fnErr.e

C10_Witness ==
    /\ pc["caller"] = "each_returned" /\ fnErr.at = 2 /\ eachRet = "ErrHandlerB"
    /\ Len(delivered) < Len(SelectSeq(dev, inFilter))

\* C11 (as stated): Each against a device with zero records has, when it
\* returns, invoked no handler and returned nil through the idle-timeout branch
\* (the stream was not seen to end).
C11_EachIdleReturnsNil ==
    (mode = "each" /\ exists /\ dev = <<>> /\ pc["caller"] = "each_returned") =>
        (handled = <<>> /\ eachRet = "nil" /\ ~ended)

\* C11 (amended): Each against a device with zero records never invokes the
\* handler; when reads on the device block while nothing is buffered, Each
\* terminates and returns nil through the idle-timeout branch; when the read
\* fails instead (end of file or short read), Each returns either nil through
\* the idle-timeout branch or that read error through the closed-stream branch.
C11_EachIdle ==
    /\ []((mode = "each" /\ dev = <<>>) => handled = <<>>)
    /\ []((mode = "each" /\ exists /\ dev = <<>> /\ pc["caller"] = "each_returned") =>
            IF ended THEN endKind # "block" /\ eachRet = endKind
                     ELSE eachRet = "nil")
    /\ (mode = "each" /\ exists /\ dev = <<>> /\ endKind = "block")
          ~> (pc["caller"] = "each_returned" /\ eachRet = "nil" /\ ~ended)

C11_Witness ==
    /\ mode = "each" /\ exists /\ dev = <<>> /\ endKind = "block"
    /\ pc["caller"] = "each_returned" /\ eachRet = "nil" /\ ~ended
    /\ handled = <<>> /\ ~fileOpen

\* C12: a BlockByIdx(idx, block) that returns nil has written exactly one
\* record of 8 bytes holding Idx = idx, Type = 0, Op = change, Soft = 1 if block
\* else 0, Hard = 0 in the machine's byte order; the handle it used is one it
\* opened itself, and it is closed exactly once by the time the call returns,
\* whether the write succeeded or failed.
C12_BlockByIdxWritesCommand ==
    (mode = "block" /\ bb.pc = "returned") =>
        /\ ~bb.open
        /\ bb.nClose = bb.nOpen
        /\ bb.ret # "DeviceMissing" => bb.nOpen = 1
        /\ bb.ret = "nil" =>
              /\ Len(bb.written) = 1
              /\ Len(bb.written[1]) = 8
              /\ SubSeq(bb.written[1], 5, 8) = <<0, OpChange, IF bb.block THEN 1 ELSE 0, 0>>
              /\ decode(bb.endianness, bb.written[1]) =
                    [Idx |-> bb.idx, Type |-> 0, Op |-> OpChange,
                     Soft |-> IF bb.block THEN 1 ELSE 0, Hard |-> 0]

C12_Witness ==
    /\ mode = "block" /\ bb.pc = "returned" /\ bb.ret = "nil"
    /\ bb.block /\ bb.idx > 65536 /\ bb.endianness = "BigEndian"

\* C13: when the control device does not exist, Watch and BlockByIdx return
\* the device-missing error and have no other effect: no Watcher (no handle,
\* no channel activity, no terminal error), no decode loop, nothing written by
\* BlockByIdx; Each returns the same error without invoking its handler.
C13_DeviceMissing ==
    ~exists =>
        /\ pc["loop"] = "unborn"
        /\ ~fileOpen /\ nFileClose = 0 /\ ~done /\ ~evchClosed /\ err = "nil"
        /\ delivered = <<>> /\ handled = <<>> /\ nClose = 0 /\ ~crashed
        /\ (mode = "watch" /\ pc["caller"] # "start") =>
              (pc["caller"] = "failed" /\ watchRet = "DeviceMissing")
        /\ (mode = "each" /\ pc["caller"] # "start") =>
              (pc["caller"] = "each_returned" /\ eachRet = "DeviceMissing")
        /\ (mode = "block" /\ bb.pc # "start") =>
              /\ bb.pc = "returned" /\ bb.ret = "DeviceMissing"
              /\ bb.written = <<>> /\ bb.nOpen = 0 /\ bb.nClose = 0

\* an entry point has returned from a missing device (one per mode)
C13_Witness ==
    /\ ~exists
    /\ \/ mode = "watch" /\ watchRet = "DeviceMissing"
       \/ mode = "each" /\ eachRet = "DeviceMissing"
       \/ mode = "block" /\ bb.ret = "DeviceMissing"

\* C14 (as stated): once Close() has returned, the decode loop never issues
\* another read on the device handle.
C14_NoReadAfterClose ==
    [][(Len(closeRet) >= 1 /\ pc["loop"] = "read") => pc'["loop"] = "read"]_vars

\* C14 (amended): a read the loop issues after Close() has returned fails
\* without consuming a record or decoding an event, and sends the loop to its
\* exit: either straight to the return (cancelled read) or through close(err),
\* which finds the done signal set and changes nothing.
C14_ReadAfterCloseFails ==
    [][/\ (Len(closeRet) >= 1 /\ pc["loop"] = "read" /\ pc'["loop"] # "read") =>
            /\ pos' = pos /\ ev' = ev /\ delivered' = delivered
            /\ pc'["loop"] \in {"return", "close_check"}
       /\ (Len(closeRet) >= 1 /\ pc["loop"] = "close_check"
                              /\ pc'["loop"] # "close_check") =>
            /\ pc'["loop"] = "return"
            /\ err' = err /\ nDoneClose' = nDoneClose /\ nFileClose' = nFileClose
      ]_vars

\* Close() returned while records were still unread, the loop came back from
\* the filter or the handoff, read the closed handle and stopped
C14_Witness ==
    /\ Len(closeRet) >= 1
    /\ closeArg["loop"] = "PathErrClosed"
    /\ pc["loop"] = "stopped"
    /\ pos >= 1 /\ pos < Len(dev)

\* C15 (as stated): no event is delivered on the stream after the done signal
\* is set.
C15_NoDeliveryAfterDone ==
    done => Len(delivered) = lenAtDone

\* C15 (amended): after the done signal is set the loop either stops without
\* publishing or publishes the one event it already holds (the select at
\* rfkill.go:263-267 chooses among its ready cases); it never delivers a second
\* event after the done signal.
C15_AtMostHeldEventAfterDone ==
    done => /\ lenAtDone <= Len(delivered)
            /\ Len(delivered) <= lenAtDone + 1
            /\ ~(Len(delivered) = lenAtDone + 1 /\ pc["loop"] = "select")

\* the held event was published although the done signal was already set
C15_Witness ==
    /\ done /\ Len(delivered) = lenAtDone + 1
    /\ delivered[Len(delivered)] = ev
    /\ pc["loop"] = "stopped"

\* the records of the device the filter lets through, computed from the filter
\* set itself
acceptedRecords == SelectSeq(dev, LAMBDA e : ops = {} \/ e.Op \in ops)

\* the loop's read ended in io.EOF or io.ErrUnexpectedEOF
readFailedShort == closeArg["loop"] \in {"EOF", "ErrUnexpectedEOF"}

\* C16: when a read yields io.EOF or a short record and no Close() has been
\* called, the loop publishes no event for it (what was delivered is exactly
\* the accepted records read before), it goes through close(err) and, once
\* stopped, has recorded that error as w.err, closed the handle once, set the
\* done signal once and ended the stream; it never reads again (the read
\* position stays, the loop never returns to the read). Under fair scheduling
\* of the loop it does stop, unless a Close() is called meanwhile.
C16_ShortReadIsTerminal ==
    /\ []((nClose = 0 /\ readFailedShort) =>
            /\ pc["loop"] \in {"close_check", "close_err", "close_deadline",
                               "close_done", "close_file", "return", "stopped"}
            /\ pos = Len(dev)
            /\ delivered = acceptedRecords
            /\ ~crashed
            /\ pc["loop"] = "stopped" =>
                  /\ err = closeArg["loop"]
                  /\ done /\ nDoneClose = 1
                  /\ ~fileOpen /\ nFileClose = 1
                  /\ evchClosed)
    /\ (nClose = 0 /\ readFailedShort) ~> (nClose > 0 \/ pc["loop"] = "stopped")

C16_Witness ==
    /\ nClose = 0 /\ closeArg["loop"] = "ErrUnexpectedEOF"
    /\ pc["loop"] = "stopped" /\ ended /\ errSeen = "ErrUnexpectedEOF"
    /\ Len(delivered) >= 1 /\ Len(delivered) < Len(dev)

\* C17 (as stated): a loop that stopped after a read failure without recording
\* it had a Close() called before that failure; a read failure that did not
\* follow a Close() call is recorded as w.err.
C17_SilentOnlyAfterCloseRequest ==
    (pc["loop"] = "stopped" /\ failAfterClose # "none") =>
        /\ ~wrote["loop"] => failAfterClose = "yes"
        /\ failAfterClose = "no" => (wrote["loop"] /\ err = closeArg["loop"])

\* C17 (amended): the loop stops without recording its read failure only when
\* a Close() has assigned w.err first, whether that Close() was called before
\* or after the failing read (the terminal error is then ErrClosed); a failure
\* the loop did record is the terminal error, or ErrClosed when a Close() also
\* assigned w.err; with no Close() at all the failure is always recorded.
C17_SilentOnlyAfterClose ==
    (pc["loop"] = "stopped" /\ failAfterClose # "none") =>
        /\ ~wrote["loop"] => (nClose > 0 /\ wrote["caller"] /\ err = "ErrClosed")
        /\ wrote["loop"] =>
              err \in {closeArg["loop"]} \cup
                      (IF wrote["caller"] THEN {"ErrClosed"} ELSE {})
        /\ nClose = 0 => (wrote["loop"] /\ err = closeArg["loop"])

\* the read failed with io.EOF before any Close() was called, and the loop
\* still stopped without recording it
C17_Witness ==
    /\ pc["loop"] = "stopped" /\ failAfterClose = "no"
    /\ closeArg["loop"] = "EOF" /\ ~wrote["loop"]
    /\ err = "ErrClosed" /\ nDoneClose = 1 /\ ~crashed

\* the accepted events the loop has read and not delivered
undelivered ==
    Len(SelectSeq(SubSeq(dev, 1, pos), LAMBDA e : ops = {} \/ e.Op \in ops))
        - Len(delivered)

\* C18: the loop never reads while an accepted event it decoded is still
\* undelivered: at every moment at most one accepted event is undelivered, it
\* is the one the loop holds, the loop is not at the read while it holds it,
\* and the loop leaves the handoff only by delivering that event to the
\* consumer or, with the done signal set, by returning.
C18_SingleSlotHandoff ==
    /\ [](/\ undelivered \in {0, 1}
          /\ pc["loop"] = "read" => undelivered = 0
          /\ pc["loop"] = "select" =>
                (undelivered = 1 /\ ev = dev[pos] /\ (ops = {} \/ ev.Op \in ops))
          /\ undelivered = 1 =>
                pc["loop"] \in {"filter", "select", "return", "stopped"})
    /\ [][(pc["loop"] = "select" /\ pc'["loop"] # "select") =>
            \/ /\ delivered' = Append(delivered, ev)
               /\ pc'["loop"] = "read"
            \/ /\ done /\ delivered' = delivered /\ pos' = pos
               /\ pc'["loop"] = "return"]_vars

\* the loop blocked on a held event while more records waited on the device
\* and was released by the done signal without publishing
C18_Witness ==
    /\ undelivered = 1 /\ pos < Len(dev) /\ done
    /\ pc["loop"] = "stopped" /\ Len(delivered) >= 1

\* C19: after the consumer's first Close() has returned, at most one further
\* event is delivered on the stream: never two or more.
C19_AtMostOneAfterClose ==
    lenAtClose # -1 =>
        /\ lenAtClose <= Len(delivered)
        /\ Len(delivered) <= lenAtClose + 1

\* one event was delivered after Close() returned, the stream then ended, and
\* records that were still on the device were never delivered
C19_Witness ==
    /\ lenAtClose # -1 /\ Len(delivered) = lenAtClose + 1
    /\ ended /\ pos < Len(dev) /\ pc["loop"] = "stopped"

\* C20: w.err is assigned at most once (an assignment finds it nil and is the
\* only one of the loop's close(err) and the consumer's Close()), it is non-nil
\* whenever the stream channel is closed, and it does not change once the
\* stream channel is closed.
C20_ErrAssignedOnce ==
    [][/\ err' # err => (err = "nil" /\ ~evchClosed)
       /\ ~(wrote'["loop"] /\ wrote'["caller"])
       /\ evchClosed' => err' # "nil"]_vars
====
